---- MODULE Spec2Model ----
(***************************************************************************)
(* Model of server/aggregator/aggregator_service.py: the scoring engine    *)
(* apply_scoring_logic (three passes over a list of show bundles).         *)
(*                                                                         *)
(* Numbers.  Scores and prices of the input are integers.  Python computes *)
(* the weighted score and the fair price in binary floating point and      *)
(* rounds them with round(x, 1).  The model keeps every intermediate value *)
(* as an exact fraction (numerator over a common denominator) and every    *)
(* rounded value as an integer number of tenths.  round(x, 1) returns the  *)
(* tenth nearest to the float x; when the exact value lies half way        *)
(* between two tenths the float may sit on either side, so the direction   *)
(* of such a tie is a nondeterministic input of the action.                *)
(***************************************************************************)
EXTENDS Integers, Sequences, FiniteSets, TLC

(* Bound of the model: the largest cohort handed to the engine. *)
MaxShows == 2

(***************************************************************************)
(* JSON values.  A key of a dict is either missing, holds null (None) or   *)
(* holds a number; numbers of the model are non-negative.                  *)
(***************************************************************************)
ABSENT == 0 - 1
NULL == 0 - 2

(* Weights of the formula, in hundredths, and the trade margin. *)
W_KALSHI == 50
W_YOUTUBE == 20
W_NEWS == 15
W_TMDB == 10
W_WIKI == 5
MARGIN == 5
(* market.get("yes_bid", 0) and market.get("yes_ask", 100) *)
DEFAULT_BID == 0
(* Variant: a missing yes_ask gets the default of a missing yes_bid. *)
DEFAULT_ASK_bid == DEFAULT_BID
DEFAULT_ASK == 100

(* ------------------------- Python helpers ------------------------------ *)

(* d.get(key, default): the default only replaces a missing key. *)
DictGet(v, default) == IF v = ABSENT THEN default ELSE v

(* Truthiness of d.get(key): a missing key gives None; None and 0 are falsy. *)
Falsy(v) == v = ABSENT \/ v = NULL \/ v = 0

(* a or b or 0 *)
OrChain(a, b) == IF ~Falsy(a) THEN a ELSE IF ~Falsy(b) THEN b ELSE 0

(* Nearest integer to a/b (a >= 0, b > 0); up decides an exact half. *)
RoundDiv(a, b, up) ==
  LET q == a \div b
      r == a % b
  IN  IF 2 * r < b THEN q
      ELSE IF 2 * r > b THEN q + 1
      ELSE IF up THEN q + 1 ELSE q

IsTie(a, b) == 2 * (a % b) = b

(* floor(10*a/b) and its remainder, without forming 10*a. *)
Times10(qr, b) == [q |-> qr.q * 10 + (qr.r * 10) \div b, r |-> (qr.r * 10) % b]

(* a/b scaled by 1000, as quotient and remainder of the division by b. *)
Scale1000(a, b) == Times10(Times10(Times10([q |-> a \div b, r |-> a % b], b), b), b)

(* Variant: the scaled quotient is cut off instead of rounded. *)
RoundScaled_floor(a, b, up) == Scale1000(a, b).q

(* round(1000*a/b); up decides an exact half. *)
RoundScaled(a, b, up) ==
  LET s == Scale1000(a, b)
  IN  IF 2 * s.r < b THEN s.q
      ELSE IF 2 * s.r > b THEN s.q + 1
      ELSE IF up THEN s.q + 1 ELSE s.q

IsTieScaled(a, b) == 2 * Scale1000(a, b).r = b

RECURSIVE SumSeq(_)
SumSeq(s) == IF s = <<>> THEN 0 ELSE Head(s) + SumSeq(Tail(s))

(* Index of the first entry of errs that is an error, 0 when there is none. *)
FirstError(errs) ==
  IF \E i \in DOMAIN errs : errs[i] # "none"
  THEN CHOOSE i \in DOMAIN errs :
         /\ errs[i] # "none"
         /\ \A j \in 1..(i - 1) : errs[j] = "none"
  ELSE 0

(* ------------------------- Records of a bundle ------------------------- *)
(* Every per-source record carries slot: "absent" (the key is missing from *)
(* the show), "null" (the key holds None) or "dict".                       *)

EmptyKalshi == [slot |-> "dict", last_price |-> ABSENT, yes_bid |-> ABSENT, yes_ask |-> ABSENT]
EmptyYoutube == [slot |-> "dict", totals |-> "absent", youtube_score |-> ABSENT]
EmptyNews == [slot |-> "dict", news_score |-> ABSENT]
EmptyTmdb == [slot |-> "dict", tmdb_score |-> ABSENT]
EmptyWiki == [slot |-> "dict", total_weekly_views |-> ABSENT, score |-> ABSENT]

(* show.get(key, {}): the {} only replaces a missing key, None stays None. *)
ShowGet(rec, empty) == IF rec.slot = "absent" THEN empty ELSE rec

(* show.get(key): a missing key gives None. *)
ShowGetNone(rec) == IF rec.slot = "absent" THEN [rec EXCEPT !.slot = "null"] ELSE rec

(* ------------------------- Pass 1: totals ------------------------------ *)

(* s.get("wikipedia", {}).get("total_weekly_views", 0) inside sum(). *)
WikiViewsError(show) ==
  LET w == ShowGet(show.wikipedia, EmptyWiki)
  IN  IF w.slot = "null" THEN "AttributeError"
      ELSE IF w.total_weekly_views = NULL THEN "TypeError"
      ELSE "none"

(* Variant: a share stored by an earlier run is taken for the views. *)
WikiViews_stale(show) ==
  LET w == ShowGet(show.wikipedia, EmptyWiki)
  IN  IF w.score # ABSENT THEN w.score ELSE DictGet(w.total_weekly_views, 0)

WikiViews(show) == DictGet(ShowGet(show.wikipedia, EmptyWiki).total_weekly_views, 0)

GrandTotalWikiViews(shows) == SumSeq([i \in DOMAIN shows |-> WikiViews(shows[i])])

(* ------------------------- Pass 2: scores ------------------------------ *)

(* Variant: last_price wins whenever it is present, also when it is 0. *)
KalshiVal_present(k) ==
  IF k.last_price # ABSENT /\ k.last_price # NULL THEN k.last_price
  ELSE IF ~Falsy(k.yes_bid) THEN k.yes_bid ELSE 0

(* k_data.get("last_price") or k_data.get("yes_bid") or 0 *)
KalshiVal(k) == OrChain(k.last_price, k.yes_bid)

(* Variant: show["kalshi"] instead of show.get("kalshi", {}). *)
ScoreError_keyerror(show) ==
  LET k == show.kalshi
      y == ShowGet(show.youtube, EmptyYoutube)
      n == ShowGet(show.news, EmptyNews)
      t == ShowGet(show.tmdb, EmptyTmdb)
  IN  IF k.slot = "absent" THEN "KeyError"
      ELSE IF k.slot = "null" THEN "AttributeError"
      ELSE IF y.slot = "null" THEN "TypeError"
      ELSE IF y.totals = "null" THEN "AttributeError"
      ELSE IF y.totals = "dict" /\ y.youtube_score = NULL THEN "TypeError"
      ELSE IF n.slot = "null" THEN "AttributeError"
      ELSE IF n.news_score = NULL THEN "TypeError"
      ELSE IF t.slot = "null" THEN "AttributeError"
      ELSE IF t.tmdb_score = NULL THEN "TypeError"
      ELSE "none"

(* The first statement of the loop body that raises for this show. *)
ScoreError(show) ==
  LET k == ShowGet(show.kalshi, EmptyKalshi)
      y == ShowGet(show.youtube, EmptyYoutube)
      n == ShowGet(show.news, EmptyNews)
      t == ShowGet(show.tmdb, EmptyTmdb)
  IN  IF k.slot = "null" THEN "AttributeError"
      ELSE IF y.slot = "null" THEN "TypeError"
      ELSE IF y.totals = "null" THEN "AttributeError"
      ELSE IF y.totals = "dict" /\ y.youtube_score = NULL THEN "TypeError"
      ELSE IF n.slot = "null" THEN "AttributeError"
      ELSE IF n.news_score = NULL THEN "TypeError"
      ELSE IF t.slot = "null" THEN "AttributeError"
      ELSE IF t.tmdb_score = NULL THEN "TypeError"
      ELSE "none"

KalshiScore(show) == KalshiVal(ShowGet(show.kalshi, EmptyKalshi))

YtScore(show) ==
  LET y == ShowGet(show.youtube, EmptyYoutube)
  IN  IF y.totals = "dict" THEN DictGet(y.youtube_score, 0) ELSE 0

NewsScore(show) == DictGet(ShowGet(show.news, EmptyNews).news_score, 0)

TmdbScore(show) == DictGet(ShowGet(show.tmdb, EmptyTmdb).tmdb_score, 0)

(* Denominator shared by every wiki share of the call. *)
ShareDen(grand_total) == IF grand_total > 0 THEN grand_total ELSE 1

(* wiki_score = (wiki_views / grand_total) * 100 when grand_total > 0,     *)
(* else 0.0; as the numerator of a fraction over ShareDen(grand_total).    *)
WikiScoreNum(wiki_views, grand_total) ==
  IF grand_total > 0 THEN 100 * wiki_views ELSE 0

(* Variant: the share is not scaled to a percentage. *)
WikiScoreRounded_unscaled(wiki_views, grand_total, up) ==
  IF grand_total > 0 THEN RoundDiv(10 * wiki_views, grand_total, up) ELSE 0

(* round(wiki_score, 1) in tenths. *)
WikiScoreRounded(wiki_views, grand_total, up) ==
  IF grand_total > 0 THEN RoundScaled(wiki_views, grand_total, up) ELSE 0

(* Variant: the weights of news and tmdb exchanged. *)
WeightedScore_swapped(kalshi_score, yt_score, news_score, tmdb_score, wiki_num, den) ==
    (kalshi_score * W_KALSHI) * den
  + (yt_score * W_YOUTUBE) * den
  + (news_score * W_TMDB) * den
  + (tmdb_score * W_NEWS) * den
  + (wiki_num * W_WIKI)

(* weighted_score as the numerator of a fraction over 100 * ShareDen. *)
WeightedScore(kalshi_score, yt_score, news_score, tmdb_score, wiki_num, den) ==
    (kalshi_score * W_KALSHI) * den
  + (yt_score * W_YOUTUBE) * den
  + (news_score * W_NEWS) * den
  + (tmdb_score * W_TMDB) * den
  + (wiki_num * W_WIKI)

RawScore(show, grand_total) ==
  WeightedScore(KalshiScore(show), YtScore(show), NewsScore(show), TmdbScore(show),
                WikiScoreNum(WikiViews(show), grand_total), ShareDen(grand_total))

(* w_data["score"] = round(wiki_score, 1): written into the show's own     *)
(* wikipedia dict when it has one, into a throw-away {} otherwise.         *)
WriteWikiScore(show, grand_total, up) ==
  IF show.wikipedia.slot = "dict"
  THEN [show EXCEPT !.wikipedia.score = WikiScoreRounded(WikiViews(show), grand_total, up)]
  ELSE show

(* ------------------------- Pass 3: price and signal -------------------- *)

(* Variant: the share is not scaled to a percentage. *)
FairPrice_unscaled(raw_score, total, up) ==
  IF total > 0
  THEN [fault |-> FALSE, v |-> RoundDiv(10 * raw_score, total, up)]
  ELSE [fault |-> FALSE, v |-> 0]

(* Variant: the division is not guarded by total > 0. *)
FairPrice_unguarded(raw_score, total, up) ==
  IF total = 0
  THEN [fault |-> TRUE, v |-> 0]
  ELSE [fault |-> FALSE, v |-> RoundScaled(raw_score, total, up)]

(* fair_price = round((raw_score / total) * 100, 1) when total > 0, else   *)
(* round(0.0, 1); in tenths.  fault reports a division by zero.            *)
FairPrice(raw_score, total, up) ==
  IF total > 0
  THEN [fault |-> FALSE, v |-> RoundScaled(raw_score, total, up)]
  ELSE [fault |-> FALSE, v |-> 0]

(* Variant: the signal reads the price before it is rounded, cut to the   *)
(* tenth below.                                                            *)
SignalPrice_unrounded(fair_price, raw_score, total) ==
  IF total > 0 THEN Scale1000(raw_score, total).q ELSE 0

(* fair_price = round(fair_price, 1) rebinds the name: the comparisons and *)
(* the edge read the rounded price, not raw_score / total * 100.           *)
SignalPrice(fair_price, raw_score, total) == fair_price

(* Variant: the two comparisons are not strict. *)
Signal_nonstrict(fair_price, market) ==
  LET market_ask == DictGet(market.yes_ask, DEFAULT_ASK)
      market_bid == DictGet(market.yes_bid, DEFAULT_BID)
  IN  IF market_ask = NULL
      THEN [error |-> "TypeError", recommendation |-> "HOLD", edge_points |-> 0]
      ELSE IF fair_price >= 10 * (market_ask + MARGIN)
      THEN [error |-> "none", recommendation |-> "BUY YES",
            edge_points |-> fair_price - 10 * market_ask]
      ELSE IF market_bid = NULL
      THEN [error |-> "TypeError", recommendation |-> "HOLD", edge_points |-> 0]
      ELSE IF fair_price <= 10 * (market_bid - MARGIN)
      THEN [error |-> "none", recommendation |-> "SELL YES",
            edge_points |-> 10 * market_bid - fair_price]
      ELSE [error |-> "none", recommendation |-> "HOLD", edge_points |-> 0]

(* Variant: the sell branch carries a label of its own making. *)
Signal_label(fair_price, market) ==
  LET market_ask == DictGet(market.yes_ask, DEFAULT_ASK)
      market_bid == DictGet(market.yes_bid, DEFAULT_BID)
  IN  IF market_ask = NULL
      THEN [error |-> "TypeError", recommendation |-> "HOLD", edge_points |-> 0]
      ELSE IF fair_price > 10 * (market_ask + MARGIN)
      THEN [error |-> "none", recommendation |-> "BUY YES",
            edge_points |-> fair_price - 10 * market_ask]
      ELSE IF market_bid = NULL
      THEN [error |-> "TypeError", recommendation |-> "HOLD", edge_points |-> 0]
      ELSE IF fair_price < 10 * (market_bid - MARGIN)
      THEN [error |-> "none", recommendation |-> "SELL NO",
            edge_points |-> 10 * market_bid - fair_price]
      ELSE [error |-> "none", recommendation |-> "HOLD", edge_points |-> 0]

(* Variant: the sell edge is taken with the sign of the buy edge. *)
Signal_signedge(fair_price, market) ==
  LET market_ask == DictGet(market.yes_ask, DEFAULT_ASK)
      market_bid == DictGet(market.yes_bid, DEFAULT_BID)
  IN  IF market_ask = NULL
      THEN [error |-> "TypeError", recommendation |-> "HOLD", edge_points |-> 0]
      ELSE IF fair_price > 10 * (market_ask + MARGIN)
      THEN [error |-> "none", recommendation |-> "BUY YES",
            edge_points |-> fair_price - 10 * market_ask]
      ELSE IF market_bid = NULL
      THEN [error |-> "TypeError", recommendation |-> "HOLD", edge_points |-> 0]
      ELSE IF fair_price < 10 * (market_bid - MARGIN)
      THEN [error |-> "none", recommendation |-> "SELL YES",
            edge_points |-> fair_price - 10 * market_bid]
      ELSE [error |-> "none", recommendation |-> "HOLD", edge_points |-> 0]

(* Variant: the sell comparison is made first. *)
Signal_sellfirst(fair_price, market) ==
  LET market_ask == DictGet(market.yes_ask, DEFAULT_ASK)
      market_bid == DictGet(market.yes_bid, DEFAULT_BID)
  IN  IF market_ask = NULL \/ market_bid = NULL
      THEN [error |-> "TypeError", recommendation |-> "HOLD", edge_points |-> 0]
      ELSE IF fair_price < 10 * (market_bid - MARGIN)
      THEN [error |-> "none", recommendation |-> "SELL YES",
            edge_points |-> 10 * market_bid - fair_price]
      ELSE IF fair_price > 10 * (market_ask + MARGIN)
      THEN [error |-> "none", recommendation |-> "BUY YES",
            edge_points |-> fair_price - 10 * market_ask]
      ELSE [error |-> "none", recommendation |-> "HOLD", edge_points |-> 0]

(* The recommendation and the edge of one show; fair_price in tenths.      *)
Signal(fair_price, market) ==
  LET market_ask == DictGet(market.yes_ask, DEFAULT_ASK)
      market_bid == DictGet(market.yes_bid, DEFAULT_BID)
  IN  IF market_ask = NULL
      THEN [error |-> "TypeError", recommendation |-> "HOLD", edge_points |-> 0]
      ELSE IF fair_price > 10 * (market_ask + MARGIN)
      THEN [error |-> "none", recommendation |-> "BUY YES",
            edge_points |-> fair_price - 10 * market_ask]
      ELSE IF market_bid = NULL
      THEN [error |-> "TypeError", recommendation |-> "HOLD", edge_points |-> 0]
      ELSE IF fair_price < 10 * (market_bid - MARGIN)
      THEN [error |-> "none", recommendation |-> "SELL YES",
            edge_points |-> 10 * market_bid - fair_price]
      ELSE [error |-> "none", recommendation |-> "HOLD", edge_points |-> 0]

(* Variant: r is inserted in front of the elements with an equal key. *)
RECURSIVE InsertByFairPrice_unstable(_, _)
InsertByFairPrice_unstable(sorted, r) ==
  IF sorted = <<>> THEN <<r>>
  ELSE IF Head(sorted).fair_price > r.fair_price
       THEN <<Head(sorted)>> \o InsertByFairPrice_unstable(Tail(sorted), r)
       ELSE <<r>> \o sorted

(* Insert r behind every element whose fair_price is at least r's: the     *)
(* list stays sorted descending and equal keys keep their arrival order.   *)
RECURSIVE InsertByFairPrice(_, _)
InsertByFairPrice(sorted, r) ==
  IF sorted = <<>> THEN <<r>>
  ELSE IF Head(sorted).fair_price >= r.fair_price
       THEN <<Head(sorted)>> \o InsertByFairPrice(Tail(sorted), r)
       ELSE <<r>> \o sorted

(* Variant: results priced at zero are left out of the list. *)
RECURSIVE SortByFairPrice_priced(_)
SortByFairPrice_priced(s) ==
  IF s = <<>> THEN <<>>
  ELSE IF s[Len(s)].fair_price = 0
       THEN SortByFairPrice_priced(SubSeq(s, 1, Len(s) - 1))
       ELSE InsertByFairPrice(SortByFairPrice_priced(SubSeq(s, 1, Len(s) - 1)), s[Len(s)])

(* processed_shows.sort(key=fair_price, reverse=True): a stable sort. *)
RECURSIVE SortByFairPrice(_)
SortByFairPrice(s) ==
  IF s = <<>> THEN <<>>
  ELSE InsertByFairPrice(SortByFairPrice(SubSeq(s, 1, Len(s) - 1)), s[Len(s)])

(* ------------------------- The three passes ---------------------------- *)

(* Number of shows the second pass finishes: all when e2 = 0. *)
ScoredCount(n, e2) == IF e2 = 0 THEN n ELSE e2 - 1

(* The exact halves round() may meet on this input: wiki shares (w),       *)
(* composite scores (c) and fair prices (f), as sets of positions.         *)
EngineTies(shows) ==
  LET n == Len(shows)
      e1 == FirstError([i \in 1..n |-> WikiViewsError(shows[i])])
      gt == IF e1 = 0 THEN GrandTotalWikiViews(shows) ELSE 0
      e2 == IF e1 = 0 THEN FirstError([i \in 1..n |-> ScoreError(shows[i])]) ELSE 1
      m == ScoredCount(n, e2)
      raw == [i \in 1..m |-> RawScore(shows[i], gt)]
      total == SumSeq(raw)
  IN  [w |-> {i \in 1..m : gt > 0 /\ IsTieScaled(WikiViews(shows[i]), gt)},
       c |-> {i \in 1..m : e2 = 0 /\ IsTie(raw[i], 10 * ShareDen(gt))},
       f |-> {i \in 1..m : e2 = 0 /\ total > 0 /\ IsTieScaled(raw[i], total)}]

(* One result of the third pass. *)
ProcessedShow(item, composite, fair_price, sig) ==
  [show_name |-> item.data.show_name,
   final_composite_score |-> composite,
   fair_price |-> fair_price,
   recommendation |-> sig.recommendation,
   edge_points |-> sig.edge_points,
   kalshi |-> ShowGetNone(item.data.kalshi),
   youtube |-> ShowGetNone(item.data.youtube),
   news |-> ShowGetNone(item.data.news),
   tmdb |-> ShowGetNone(item.data.tmdb),
   wikipedia |-> ShowGetNone(item.data.wikipedia)]

(* The third pass on the items temp of the second: price, signal and      *)
(* result of every item, and the sort.  e1 and e2 are the positions at     *)
(* which the first and the second pass raised (0: they did not), written   *)
(* is the input list as the second pass leaves it.                         *)
ThirdPass(shows, e1, e2, gt, written, temp, upC, upF) ==
  LET m == Len(temp)
      total == SumSeq([i \in 1..m |-> temp[i].raw_score])
      fair == [i \in 1..m |-> FairPrice(temp[i].raw_score, total, i \in upF)]
      sig == [i \in 1..m |-> Signal(SignalPrice(fair[i].v, temp[i].raw_score, total),
                                    ShowGet(temp[i].data.kalshi, EmptyKalshi))]
      e3 == IF e1 = 0 /\ e2 = 0
            THEN FirstError([i \in 1..m |-> IF fair[i].fault THEN "ZeroDivisionError"
                                             ELSE sig[i].error])
            ELSE 0
      err == IF e1 # 0 THEN WikiViewsError(shows[e1])
             ELSE IF e2 # 0 THEN ScoreError(shows[e2])
             ELSE IF e3 # 0 THEN (IF fair[e3].fault THEN "ZeroDivisionError" ELSE sig[e3].error)
             ELSE "none"
      processed == [i \in 1..m |->
                      ProcessedShow(temp[i],
                                    RoundDiv(temp[i].raw_score, 10 * ShareDen(gt), i \in upC),
                                    fair[i].v, sig[i])]
  IN  [pc |-> IF err = "none" THEN "returned" ELSE "raised",
       error |-> err,
       shows_data |-> written,
       grand_total_wiki_views |-> gt,
       temp_scored_shows |-> temp,
       total_composite_score_sum |-> total,
       processed_shows |-> IF err = "none" THEN SortByFairPrice(processed) ELSE <<>>]

(* The second pass, given the outcome e1 and the total gt of the first:    *)
(* the shows it scores before one raises, and the wiki share it writes     *)
(* into each; then the third pass.                                         *)
SecondPass(shows, e1, gt, upW, upC, upF) ==
  LET n == Len(shows)
      e2 == IF e1 = 0 THEN FirstError([i \in 1..n |-> ScoreError(shows[i])]) ELSE 1
      m == IF e1 = 0 THEN ScoredCount(n, e2) ELSE 0
      written == [i \in 1..n |-> IF i <= m THEN WriteWikiScore(shows[i], gt, i \in upW)
                                  ELSE shows[i]]
  IN  ThirdPass(shows, e1, e2, gt, written,
                [i \in 1..m |->
                   [data |-> written[i],
                    kalshi_score |-> KalshiScore(shows[i]),
                    yt_score |-> YtScore(shows[i]),
                    news_score |-> NewsScore(shows[i]),
                    tmdb_score |-> TmdbScore(shows[i]),
                    wiki_views |-> WikiViews(shows[i]),
                    raw_score |-> RawScore(shows[i], gt)]],
                upC, upF)

(* apply_scoring_logic(shows): the outcome of the call (returned or        *)
(* raised), the input list as the call leaves it, the locals of the passes *)
(* and the returned list.  upW, upC, upF: the positions whose exact half   *)
(* rounds up.                                                              *)
apply_scoring_logic(shows, upW, upC, upF) ==
  LET e1 == FirstError([i \in 1..Len(shows) |-> WikiViewsError(shows[i])])
  IN  SecondPass(shows, e1, IF e1 = 0 THEN GrandTotalWikiViews(shows) ELSE 0,
                 upW, upC, upF)

(* ------------------------- Inputs of the model ------------------------- *)

Kalshi(lp, bid, ask) == [slot |-> "dict", last_price |-> lp, yes_bid |-> bid, yes_ask |-> ask]
Youtube(totals, sc) == [slot |-> "dict", totals |-> totals, youtube_score |-> sc]
News(sc) == [slot |-> "dict", news_score |-> sc]
Tmdb(sc) == [slot |-> "dict", tmdb_score |-> sc]
Wiki(views) == [slot |-> "dict", total_weekly_views |-> views, score |-> ABSENT]

AbsentOf(empty) == [empty EXCEPT !.slot = "absent"]
NullOf(empty) == [empty EXCEPT !.slot = "null"]

(* Market records: quotes in [0, 100], missing or null. *)
KalshiRecs ==
  { Kalshi(60, ABSENT, 70), Kalshi(80, 0, 70), Kalshi(20, 30, 100),
    Kalshi(0, 40, ABSENT), Kalshi(0, 0, 0), Kalshi(NULL, 40, 70),
    Kalshi(60, NULL, 70), Kalshi(60, 40, NULL), Kalshi(0, NULL, 0),
    EmptyKalshi, AbsentOf(EmptyKalshi), NullOf(EmptyKalshi) }

(* The four other sources of a bundle. *)
Metrics(y, n, t, w) == [youtube |-> y, news |-> n, tmdb |-> t, wikipedia |-> w]

ZeroMetrics == Metrics(Youtube("dict", 0), News(0), Tmdb(0), Wiki(0))

AbsentMetrics ==
  Metrics(AbsentOf(EmptyYoutube), AbsentOf(EmptyNews), AbsentOf(EmptyTmdb), AbsentOf(EmptyWiki))

MetricRecs ==
  { ZeroMetrics,
    AbsentMetrics,
    Metrics(Youtube("dict", 50), News(40), Tmdb(30), Wiki(7)),
    Metrics(Youtube("dict", 10), News(10), Tmdb(10), Wiki(3)),
    Metrics(Youtube("dict", 10), News(41), Tmdb(10), Wiki(3)),
    Metrics(Youtube("dict", 0), News(0), Tmdb(20), Wiki(0)),
    Metrics(Youtube("absent", 50), News(ABSENT), Tmdb(ABSENT), Wiki(ABSENT)),
    Metrics(Youtube("dict", ABSENT), News(0), Tmdb(0), Wiki(1)),
    Metrics(Youtube("dict", 0), News(0), Tmdb(0), Wiki(15)),
    Metrics(NullOf(EmptyYoutube), News(0), Tmdb(0), Wiki(0)),
    Metrics(Youtube("dict", NULL), News(0), Tmdb(0), Wiki(0)),
    Metrics(Youtube("dict", 0), News(NULL), Tmdb(0), Wiki(0)),
    Metrics(Youtube("dict", 0), News(0), NullOf(EmptyTmdb), Wiki(0)),
    Metrics(Youtube("dict", 0), News(0), Tmdb(0), NullOf(EmptyWiki)),
    Metrics(Youtube("dict", 0), News(0), Tmdb(0), Wiki(NULL)) }

(* Markets that are combined with every metrics record. *)
BaseKalshiRecs == { Kalshi(60, ABSENT, 70), EmptyKalshi }

(* The two entities of a worked cohort, an entity whose quotes are crossed *)
(* (the bid far above the ask), and an entity that leaves a zero-metrics   *)
(* entity of last_price 20 a share of 24.97 percent.                       *)
ExampleBundles ==
  { [kalshi |-> Kalshi(60, ABSENT, 70),
     metrics |-> Metrics(Youtube("dict", 50), News(40), Tmdb(30), Wiki(700))],
    [kalshi |-> Kalshi(20, 30, 100),
     metrics |-> Metrics(Youtube("dict", 10), News(10), Tmdb(10), Wiki(300))],
    [kalshi |-> Kalshi(50, 90, 10),
     metrics |-> Metrics(Youtube("dict", 50), News(40), Tmdb(30), Wiki(7))],
    [kalshi |-> Kalshi(59, ABSENT, ABSENT),
     metrics |-> Metrics(Youtube("dict", 2), News(1), Tmdb(0), Wiki(0))] }

(* A bundle before it is named: one market record and one metrics record. *)
BundleData ==
  { [kalshi |-> k, metrics |-> ZeroMetrics] : k \in KalshiRecs }
  \cup { [kalshi |-> k, metrics |-> m] : k \in BaseKalshiRecs, m \in MetricRecs }
  \cup { [kalshi |-> AbsentOf(EmptyKalshi), metrics |-> AbsentMetrics] }
  \cup ExampleBundles

(* Names of the shows; the i-th bundle of an input list carries the i-th. *)
ShowNames == <<"A", "B", "C", "D", "E">>

Bundle(name, d) ==
  [show_name |-> name, kalshi |-> d.kalshi, youtube |-> d.metrics.youtube,
   news |-> d.metrics.news, tmdb |-> d.metrics.tmdb, wikipedia |-> d.metrics.wikipedia]

(* The input list made of the bundle data ds, named by position. *)
InputList(ds) == [i \in DOMAIN ds |-> Bundle(ShowNames[i], ds[i])]

(* ------------------------- Orchestrator: data -------------------------- *)

(* sorted(...)[:5]: the size of the cohort of a full refresh. *)
TopN == 5

(* The zero defaults of the three sources that are plain constants. *)
DEFAULT_YOUTUBE_DATA == Youtube("dict", 0)
DEFAULT_NEWS_DATA == News(0)
DEFAULT_TMDB_DATA == Tmdb(0)

(* A market of the event as Kalshi returns it; subtitle "" stands for a    *)
(* missing or empty subtitle.                                              *)
Market(ticker, subtitle, lp, bid, ask) ==
  [slot |-> "dict", ticker |-> ticker, subtitle |-> subtitle,
   last_price |-> lp, yes_bid |-> bid, yes_ask |-> ask]

(* Variant: the cohort is ranked by the engine's market value. *)
_market_sort_key_lastprice(market) == OrChain(market.last_price, market.yes_bid)

(* market.get("yes_bid") or market.get("last_price") or 0.0 *)
_market_sort_key(market) == OrChain(market.yes_bid, market.last_price)

(* sorted(all_markets, key=_market_sort_key, reverse=True): stable, so     *)
(* markets of equal key keep the order Kalshi returned them in.            *)
RECURSIVE InsertByKey(_, _)
InsertByKey(sorted, m) ==
  IF sorted = <<>> THEN <<m>>
  ELSE IF _market_sort_key(Head(sorted)) >= _market_sort_key(m)
       THEN <<Head(sorted)>> \o InsertByKey(Tail(sorted), m)
       ELSE <<m>> \o sorted

RECURSIVE SortMarkets(_)
SortMarkets(s) ==
  IF s = <<>> THEN <<>>
  ELSE InsertByKey(SortMarkets(SubSeq(s, 1, Len(s) - 1)), s[Len(s)])

(* The first TopN markets of the ranking. *)
TopMarkets(all) ==
  LET ranked == SortMarkets(all)
  IN  SubSeq(ranked, 1, IF Len(ranked) < TopN THEN Len(ranked) ELSE TopN)

(* normalize_show_name on the subtitles of the modelled markets: cut at    *)
(* ": Season", drop a trailing number, strip.                              *)
normalize_show_name(name) ==
  CASE name = "A: Season 2" -> "A"
    [] name = "C 3" -> "C"
    [] OTHER -> name

(* The markets Kalshi can return for the event. *)
MarketLists ==
  { <<>>,
    << Market("M1", "A: Season 2", 60, 55, 65) >>,
    << Market("M1", "", 70, 65, 75), Market("M2", "B", 50, 45, 55) >>,
    << Market("M1", "A: Season 2", 60, 55, 65), Market("M2", "B", 30, 25, NULL) >>,
    << Market("M1", "A: Season 2", 60, 55, 65), Market("M2", "B", 90, 1, 99),
       Market("M3", "C 3", 10, 20, 25), Market("M4", "D", 0, 40, 45),
       Market("M5", "E", 30, 0, 35), Market("M6", "F", 5, 5, 10) >> }

Sources == {"youtube", "news", "tmdb", "wikipedia"}

(* How the upstream sources answer: the markets at the positions in who    *)
(* (of Kalshi's list) get, from every source in sources, an exception      *)
(* ("raise"), a payload without the expected key ("malformed"), or the     *)
(* RuntimeError of a service whose API key is not set ("no_key", which     *)
(* meets every market alike).                                              *)
Upstream(who, sources, how) == [who |-> who, sources |-> sources, how |-> how]

AllUp == Upstream({}, {}, "raise")

(* The sources that read an API key from the environment. *)
KeyedSources == {"youtube", "news", "tmdb"}

UpstreamCases ==
  {AllUp}
  \cup { Upstream({1}, {x}, h) : x \in Sources, h \in {"raise", "malformed"} }
  \cup { Upstream(1..(TopN + 1), Sources, "raise") }
  \cup { Upstream(1..(TopN + 1), s, "no_key") : s \in {{"youtube"}, KeyedSources} }

(* The answer of source s for the market at position i. *)
Outcome(up, i, s) == IF i \in up.who /\ s \in up.sources THEN up.how ELSE "ok"

(* Weekly page views of the article of the market at position i. *)
PageViews(i) == <<7, 3, 15, 1, 3, 7>>[i]

(* Variant: a payload without "totals" is kept as it came. *)
YoutubeData_unchecked(outcome) ==
  IF outcome = "ok" THEN Youtube("dict", 50)
  ELSE IF outcome = "malformed" THEN Youtube("absent", ABSENT)
  ELSE DEFAULT_YOUTUBE_DATA

(* The youtube slot of a bundle: the analysis, or the default when the     *)
(* call raised or the payload has no "totals".                             *)
YoutubeData(outcome) ==
  IF outcome = "ok" THEN Youtube("dict", 50) ELSE DEFAULT_YOUTUBE_DATA

NewsData(outcome) == IF outcome = "ok" THEN News(40) ELSE DEFAULT_NEWS_DATA

TmdbData(outcome) == IF outcome = "ok" THEN Tmdb(30) ELSE DEFAULT_TMDB_DATA

(* The wikipedia slot: the summed points; a payload without points sums    *)
(* to 0 in a dict of its own; after an exception the slot is the module's  *)
(* DEFAULT_WIKI_DATA object itself, passed here as default.                *)
WikiData(outcome, i, default) ==
  IF outcome = "ok" THEN Wiki(PageViews(i))
  ELSE IF outcome = "malformed" THEN Wiki(0)
  ELSE default

(* ------------------------- State and actions --------------------------- *)

VARIABLES shows_data, input, pc, error, grand_total_wiki_views,
          temp_scored_shows, total_composite_score_sum, processed_shows,
          event_markets, upstream, DEFAULT_WIKI_DATA, snapshots, sec, stamp,
          ops, last_op, response, last_save, engine_calls, all_markets,
          top_markets, shadow, calls, accesses, route, requests, kalshi_fetch, again

(* The engine's view: its argument, its locals and its outcome. *)
engine_vars == <<shows_data, input, pc, error, grand_total_wiki_views,
                 temp_scored_shows, total_composite_score_sum, processed_shows, again>>

(* The orchestrator's view: the upstream world, the module-level wiki      *)
(* default, the snapshot store, the clock and the last operation.          *)
orch_vars == <<event_markets, upstream, DEFAULT_WIKI_DATA, snapshots, sec, stamp,
               ops, last_op, response, last_save, engine_calls, all_markets,
               top_markets, shadow, route, requests, kalshi_fetch>>

(* Engine calls in progress side by side, and who has read and written    *)
(* the module's DEFAULT_WIKI_DATA object.                                  *)
conc_vars == <<calls, accesses>>

vars == <<engine_vars, orch_vars, conc_vars>>

(* No engine call is in progress. *)
ConcIdle == calls = <<>> /\ accesses = [readers |-> {}, writers |-> {}]

(* {} as a JSON object, and the shape of every payload: keys tells which   *)
(* of timestamp, shows and error the object has.                           *)
EmptyDict == [keys |-> {}, timestamp |-> 0, shows |-> <<>>, error |-> ""]

(* What an operation handed back: a body, or the exception it raised. *)
Returns(body) == [raised |-> "none", body |-> body]
Raises(exc) == [raised |-> exc, body |-> EmptyDict]

(* Nothing has been fetched, saved or called. *)
OrchIdle ==
  /\ event_markets = <<>>
  /\ all_markets = <<>>
  /\ upstream = AllUp
  /\ DEFAULT_WIKI_DATA = Wiki(0)
  /\ snapshots = <<>>
  /\ sec = 0
  /\ stamp = 0
  /\ ops = 0
  /\ last_op = "none"
  /\ response = Returns(EmptyDict)
  /\ last_save = "none"
  /\ engine_calls = 0
  /\ top_markets = <<>>
  /\ shadow = {}
  /\ route = "none"
  /\ requests = 0
  /\ kalshi_fetch = "none"

(* The outcome of a call made on the list an earlier call returned; no    *)
(* such call has been made.                                                *)
NotCalled == [pc |-> "ready", error |-> "none", processed_shows |-> <<>>]

(* A caller holds a list of bundles and has not called the engine yet.     *)
(* input keeps the list as it was handed over.                             *)
Init ==
  /\ \E n \in 0..MaxShows : \E ds \in [1..n -> BundleData] : shows_data = InputList(ds)
  /\ input = shows_data
  /\ pc = "ready"
  /\ error = "none"
  /\ grand_total_wiki_views = 0
  /\ temp_scored_shows = <<>>
  /\ total_composite_score_sum = 0
  /\ processed_shows = <<>>
  /\ again = NotCalled
  /\ OrchIdle
  /\ ConcIdle

(* One call of apply_scoring_logic on shows_data. *)
ApplyScoringLogic ==
  /\ pc = "ready"
  /\ LET ties == EngineTies(shows_data)
     IN  \E upW \in SUBSET ties.w, upC \in SUBSET ties.c, upF \in SUBSET ties.f :
           LET r == apply_scoring_logic(shows_data, upW, upC, upF)
           IN  /\ pc' = r.pc
               /\ error' = r.error
               /\ shows_data' = r.shows_data
               /\ grand_total_wiki_views' = r.grand_total_wiki_views
               /\ temp_scored_shows' = r.temp_scored_shows
               /\ total_composite_score_sum' = r.total_composite_score_sum
               /\ processed_shows' = r.processed_shows
  /\ UNCHANGED <<input, again>>
  /\ UNCHANGED orch_vars
  /\ UNCHANGED conc_vars

Next == ApplyScoringLogic

Spec == Init /\ [][Next]_vars

(* ------------------------- The engine on its own output ---------------- *)

(* Bundle data of the cohorts whose results are fed back in. *)
RepeatData ==
  ExampleBundles
  \cup { [kalshi |-> k, metrics |-> m] :
           k \in BaseKalshiRecs,
           m \in {ZeroMetrics, AbsentMetrics,
                  Metrics(Youtube("dict", 10), News(10), Tmdb(10), Wiki(3))} }
  \cup { [kalshi |-> AbsentOf(EmptyKalshi), metrics |-> ZeroMetrics] }

InitTwice ==
  /\ \E n \in 0..MaxShows : \E ds \in [1..n -> RepeatData] : shows_data = InputList(ds)
  /\ input = shows_data
  /\ pc = "ready"
  /\ error = "none"
  /\ grand_total_wiki_views = 0
  /\ temp_scored_shows = <<>>
  /\ total_composite_score_sum = 0
  /\ processed_shows = <<>>
  /\ again = NotCalled
  /\ OrchIdle
  /\ ConcIdle

(* apply_scoring_logic(results): a second call, on the list the first call *)
(* returned, as recalculate_scores makes on the shows of a snapshot.       *)
ApplyAgain ==
  /\ pc = "returned"
  /\ again = NotCalled
  /\ LET ties == EngineTies(processed_shows)
     IN  \E upW \in SUBSET ties.w, upC \in SUBSET ties.c, upF \in SUBSET ties.f :
           LET r == apply_scoring_logic(processed_shows, upW, upC, upF)
           IN  again' = [pc |-> r.pc, error |-> r.error,
                         processed_shows |-> r.processed_shows]
  /\ UNCHANGED <<shows_data, input, pc, error, grand_total_wiki_views,
                 temp_scored_shows, total_composite_score_sum, processed_shows>>
  /\ UNCHANGED orch_vars
  /\ UNCHANGED conc_vars

NextTwice == ApplyScoringLogic \/ ApplyAgain

SpecTwice == InitTwice /\ [][NextTwice]_vars

(* ------------------------- Orchestrator: operations -------------------- *)

(* Operations one behaviour performs. *)
MaxOps == 2

(* Variant: the payload is built without its timestamp. *)
FinalPayload_unstamped(ts, shows) ==
  [keys |-> {"shows"}, timestamp |-> 0, shows |-> shows, error |-> ""]

(* {"timestamp": utcnow().isoformat(), "shows": final_shows} *)
FinalPayload(ts, shows) ==
  [keys |-> {"timestamp", "shows"}, timestamp |-> ts, shows |-> shows, error |-> ""]

(* {"error": "Failed to fetch base market data", "shows": []} *)
FetchErrorPayload ==
  [keys |-> {"error", "shows"}, timestamp |-> 0, shows |-> <<>>,
   error |-> "Failed to fetch base market data"]

(* {"error": "No existing analysis found. Please run a full refresh first."} *)
NoAnalysisPayload ==
  [keys |-> {"error"}, timestamp |-> 0, shows |-> <<>>,
   error |-> "No existing analysis found. Please run a full refresh first."]

(* A snapshot file: its name (the second it was written in) and the JSON   *)
(* it holds, or no parsable JSON when the dump broke off.                  *)
SnapshotFile(name, intact, data) == [name |-> name, intact |-> intact, data |-> data]

(* What the write of a snapshot can do: succeed, fail before the file is   *)
(* opened, or fail after it was opened for writing.                        *)
SaveOutcomes == {"written", "open_failed", "dump_failed"}

(* The store after path.open("w") on name and a dump of content: a file of *)
(* that name is replaced and becomes the most recently modified.           *)
WriteFile(files, f) == SelectSeq(files, LAMBDA g : g.name # f.name) \o <<f>>

(* Variant: a save clears the directory before it writes. *)
_save_snapshot_clearing(files, name, payload, outcome) ==
  IF outcome = "written" THEN <<SnapshotFile(name, TRUE, payload)>>
  ELSE IF outcome = "dump_failed" THEN <<SnapshotFile(name, FALSE, EmptyDict)>>
  ELSE <<>>

(* _save_snapshot(payload): the store afterwards; snapshots is kept in     *)
(* order of modification time, newest last. An exception is only printed.  *)
_save_snapshot(files, name, payload, outcome) ==
  IF outcome = "written" THEN WriteFile(files, SnapshotFile(name, TRUE, payload))
  ELSE IF outcome = "dump_failed" THEN WriteFile(files, SnapshotFile(name, FALSE, EmptyDict))
  ELSE files

(* Variant: the files are sorted by modification time without reverse.     *)
get_latest_snapshot_oldest(files) ==
  IF files = <<>> THEN EmptyDict
  ELSE IF files[1].intact THEN files[1].data ELSE EmptyDict

(* get_latest_snapshot(): the JSON of the most recently modified file; {}  *)
(* when there is none or it cannot be parsed.                              *)
get_latest_snapshot(files) ==
  IF files = <<>> THEN EmptyDict
  ELSE IF files[Len(files)].intact THEN files[Len(files)].data ELSE EmptyDict

(* Variant: recalculate does not look whether there is a snapshot. *)
NoAnalysis_unchecked(latest) == FALSE

(* not latest or "shows" not in latest *)
NoAnalysis(latest) == latest.keys = {} \/ "shows" \notin latest.keys

(* Position in Kalshi's list of a market of the cohort. *)
MarketPos(market) == CHOOSE i \in DOMAIN event_markets : event_markets[i].ticker = market.ticker

(* The markets of the cohort the loop does not skip. *)
Named(top) == SelectSeq(top, LAMBDA m : m.subtitle # "")

(* The raw bundle the loop appends for one market. *)
RawBundle(market, up, default) ==
  LET i == MarketPos(market)
  IN  [show_name |-> normalize_show_name(market.subtitle),
       kalshi |-> market,
       youtube |-> YoutubeData(Outcome(up, i, "youtube")),
       news |-> NewsData(Outcome(up, i, "news")),
       tmdb |-> TmdbData(Outcome(up, i, "tmdb")),
       wikipedia |-> WikiData(Outcome(up, i, "wikipedia"), i, default)]

(* shows_payload: one bundle per named market of the cohort. *)
ShowsPayload(top, up, default) ==
  LET named == Named(top)
  IN  [j \in DOMAIN named |-> RawBundle(named[j], up, default)]

(* Positions of shows_payload whose wikipedia slot is DEFAULT_WIKI_DATA. *)
Aliases(top, up) ==
  LET named == Named(top)
  IN  {j \in DOMAIN named : Outcome(up, MarketPos(named[j]), "wikipedia") = "raise"}

(* DEFAULT_WIKI_DATA after the engine ran on bundles: the engine's write   *)
(* of "score" into an aliased slot is a write into the module's object.    *)
WikiDefaultAfter(default, aliases, r) ==
  LET written == {j \in aliases : j <= Len(r.temp_scored_shows)}
  IN  IF written = {} THEN default
      ELSE r.shows_data[CHOOSE j \in written : \A k \in written : j <= k].wikipedia

(* The engine's variables after a call with argument arg and outcome r. *)
EngineCalled(arg, r) ==
  /\ input' = arg
  /\ pc' = r.pc
  /\ error' = r.error
  /\ shows_data' = r.shows_data
  /\ grand_total_wiki_views' = r.grand_total_wiki_views
  /\ temp_scored_shows' = r.temp_scored_shows
  /\ total_composite_score_sum' = r.total_composite_score_sum
  /\ processed_shows' = r.processed_shows
  /\ engine_calls' = engine_calls + 1
  /\ UNCHANGED again

(* Seconds the clock can have advanced since the last save: none only     *)
(* matters, and is only modelled, when the write then hits the file of     *)
(* that second again.                                                      *)
Ticks(outcome) ==
  IF outcome # "open_failed" /\ \E i \in DOMAIN snapshots : snapshots[i].name = sec
  THEN {0, 1} ELSE {1}

(* The tail of both operations: the engine raised and nothing is saved, or *)
(* its output is stamped, saved and returned.                              *)
StampSaveReturn(r) ==
  IF r.pc = "raised"
  THEN /\ response' = Raises(r.error)
       /\ last_save' = "none"
       /\ UNCHANGED <<snapshots, sec, stamp>>
  ELSE \E outcome \in SaveOutcomes : \E tick \in Ticks(outcome) :
         /\ stamp' = stamp + 1
         /\ sec' = sec + tick
         /\ snapshots' = _save_snapshot(snapshots, sec', FinalPayload(stamp', r.processed_shows), outcome)
         /\ last_save' = outcome
         /\ response' = Returns(FinalPayload(stamp', r.processed_shows))


(* The fields the engine computes, overwritten in a stored result: how two *)
(* snapshots of the same raw data can differ.                              *)
Scramble(show, k) ==
  [show EXCEPT !.final_composite_score = @ + k,
               !.fair_price = 1000 - @,
               !.recommendation = IF k = 1 THEN "HOLD" ELSE "BUY YES",
               !.edge_points = k - @,
               !.wikipedia = IF @.slot = "dict" THEN [@ EXCEPT !.score = 100 * k] ELSE @]

ScrambleKinds == {1, 2}

(* What a caller sees of an engine call. *)
Seen(r) == [pc |-> r.pc, error |-> r.error, processed_shows |-> r.processed_shows]

(* A payload an earlier run of the server has left in the data directory. *)
EarlierPayload ==
  FinalPayload(0,
    apply_scoring_logic(
      << [show_name |-> "Z", kalshi |-> Market("M0", "Z", 40, 35, 45),
          youtube |-> Youtube("dict", 50), news |-> News(40), tmdb |-> Tmdb(30),
          wikipedia |-> Wiki(7)] >>, {}, {}, {}).processed_shows)

(* The data directory when the module is loaded: DATA_DIR.mkdir(exist_ok)  *)
(* keeps what is there: nothing, a snapshot, or a snapshot and a newer     *)
(* file whose dump broke off.  Their names lie before the clock's start.   *)
ExistingStores ==
  { <<>>,
    << SnapshotFile(0 - 2, TRUE, EarlierPayload) >>,
    << SnapshotFile(0 - 2, TRUE, EarlierPayload), SnapshotFile(0 - 1, FALSE, EmptyDict) >> }

(* The upstream world (the markets of the event and how the sources       *)
(* answer) is fixed for a behaviour; nothing has run yet.                  *)
InitOrch ==
  /\ event_markets \in MarketLists
  /\ all_markets = <<>>
  /\ upstream \in UpstreamCases
  /\ DEFAULT_WIKI_DATA = Wiki(0)
  /\ snapshots \in ExistingStores
  /\ sec = 0
  /\ stamp = 0
  /\ ops = 0
  /\ last_op = "none"
  /\ response = Returns(EmptyDict)
  /\ last_save = "none"
  /\ engine_calls = 0
  /\ top_markets = <<>>
  /\ shadow = {}
  /\ route = "none"
  /\ requests = 0
  /\ kalshi_fetch = "none"
  /\ shows_data = <<>>
  /\ input = <<>>
  /\ pc = "ready"
  /\ error = "none"
  /\ grand_total_wiki_views = 0
  /\ temp_scored_shows = <<>>
  /\ total_composite_score_sum = 0
  /\ processed_shows = <<>>
  /\ again = NotCalled
  /\ ConcIdle

(* run_full_analysis(): fetch is what the Kalshi request did: an answer,   *)
(* a failure _request swallows (no markets), or an HTTP error it re-raises.*)
(* requests counts the calls made to upstream services: one to Kalshi and *)
(* four for every bundle built.                                            *)
run_full_analysis ==
  /\ ops < MaxOps
  /\ ops' = ops + 1
  /\ last_op' = "refresh"
  /\ UNCHANGED <<event_markets, upstream, shadow>>
  /\ UNCHANGED conc_vars
  /\ \E fetch \in {"ok", "request_failed", "http_error"} :
       /\ kalshi_fetch' = fetch
       /\ requests' = requests + 1 +
            (IF fetch = "ok" THEN 4 * Len(Named(TopMarkets(event_markets))) ELSE 0)
       /\ IF fetch = "http_error"
          THEN /\ response' = Returns(FetchErrorPayload)
               /\ last_save' = "none"
               /\ all_markets' = <<>>
               /\ top_markets' = <<>>
               /\ UNCHANGED <<engine_vars, DEFAULT_WIKI_DATA, snapshots, sec, stamp, engine_calls>>
          ELSE LET all == IF fetch = "ok" THEN event_markets ELSE <<>>
                   top == TopMarkets(all)
                   bundles == ShowsPayload(top, upstream, DEFAULT_WIKI_DATA)
                   ties == EngineTies(bundles)
               IN  /\ all_markets' = all
                   /\ top_markets' = top
                   /\ \E upW \in SUBSET ties.w, upC \in SUBSET ties.c, upF \in SUBSET ties.f :
                        LET r == apply_scoring_logic(bundles, upW, upC, upF)
                        IN  /\ EngineCalled(bundles, r)
                            /\ DEFAULT_WIKI_DATA' =
                                 WikiDefaultAfter(DEFAULT_WIKI_DATA, Aliases(top, upstream), r)
                            /\ StampSaveReturn(r)

(* recalculate_scores(): the engine on the shows of the latest snapshot.   *)
(* shadow is the same call on the snapshot with its computed fields        *)
(* overwritten.                                                            *)
RecalculateScores ==
  /\ ops < MaxOps
  /\ ops' = ops + 1
  /\ last_op' = "recalculate"
  /\ UNCHANGED <<event_markets, upstream, all_markets, top_markets, DEFAULT_WIKI_DATA>>
  /\ UNCHANGED <<requests, kalshi_fetch>>
  /\ route' = "/recalculate"
  /\ UNCHANGED conc_vars
  /\ LET latest == get_latest_snapshot(snapshots)
     IN  IF NoAnalysis(latest)
         THEN /\ response' = Returns(NoAnalysisPayload)
              /\ last_save' = "none"
              /\ shadow' = {}
              /\ UNCHANGED <<engine_vars, snapshots, sec, stamp, engine_calls>>
         ELSE LET ties == EngineTies(latest.shows)
              IN  \E upW \in SUBSET ties.w, upC \in SUBSET ties.c, upF \in SUBSET ties.f :
                    LET r == apply_scoring_logic(latest.shows, upW, upC, upF)
                    IN  /\ EngineCalled(latest.shows, r)
                        /\ shadow' =
                             { Seen(apply_scoring_logic(
                                 [i \in DOMAIN latest.shows |-> Scramble(latest.shows[i], k)],
                                 upW, upC, upF)) : k \in ScrambleKinds }
                        /\ StampSaveReturn(r)

(* POST /refresh *)
RunFullAnalysis == run_full_analysis /\ route' = "/refresh"

(* Variant: the test of the route is inverted. *)
NoData_inverted(data) == data.keys # {}

(* not data *)
NoData(data) == data.keys = {}

(* GET /latest: the latest snapshot when get_latest_snapshot returns a     *)
(* non-empty dict, a full refresh otherwise.                               *)
GetLatestAnalysis ==
  /\ route' = "/latest"
  /\ LET data == get_latest_snapshot(snapshots)
     IN  IF NoData(data)
         THEN run_full_analysis
         ELSE /\ ops < MaxOps
              /\ ops' = ops + 1
              /\ last_op' = "read"
              /\ response' = Returns(data)
              /\ last_save' = "none"
              /\ UNCHANGED <<event_markets, upstream, DEFAULT_WIKI_DATA, snapshots, sec, stamp,
                             engine_calls, all_markets, top_markets, shadow, requests,
                             kalshi_fetch>>
              /\ UNCHANGED <<engine_vars, conc_vars>>

NextOrch == RunFullAnalysis \/ RecalculateScores \/ GetLatestAnalysis

SpecOrch == InitOrch /\ [][NextOrch]_vars

(* ------------------------- Properties ---------------------------------- *)

Abs(x) == IF x < 0 THEN 0 - x ELSE x

(* Position in the input list of the bundle a result was made from. *)
InputPos(r) == CHOOSE p \in DOMAIN input : input[p].show_name = r.show_name

Returned == pc = "returned"

(* The quotes a result is compared with, defaults included. *)
AskOf(r) == IF r.kalshi.yes_ask = ABSENT THEN 100 ELSE r.kalshi.yes_ask
BidOf(r) == IF r.kalshi.yes_bid = ABSENT THEN 0 ELSE r.kalshi.yes_bid

(* C1: the returned list is sorted by fair_price descending, and results   *)
(* with equal fair_price keep the relative order of their bundles in the   *)
(* input list.                                                             *)
C1_SortedStable ==
  Returned =>
    /\ Len(processed_shows) = Len(input)
    /\ \A i, j \in DOMAIN processed_shows :
         i < j =>
           \/ processed_shows[i].fair_price > processed_shows[j].fair_price
           \/ /\ processed_shows[i].fair_price = processed_shows[j].fair_price
              /\ InputPos(processed_shows[i]) < InputPos(processed_shows[j])

(* C1 witness: a returned list with two results of equal, non-zero fair    *)
(* price standing in input order.                                          *)
C1_Witness ==
  /\ Returned
  /\ \E i, j \in DOMAIN processed_shows :
       /\ i < j
       /\ processed_shows[i].fair_price = processed_shows[j].fair_price
       /\ processed_shows[i].fair_price > 0
       /\ InputPos(processed_shows[i]) < InputPos(processed_shows[j])

FairPriceSum == SumSeq([i \in DOMAIN processed_shows |-> processed_shows[i].fair_price])

(* C2: when the total composite score is greater than 0, the rounded fair  *)
(* prices of one call add up to 100 within 0.05 per entity (in tenths:     *)
(* |sum - 1000| <= n / 2).                                                 *)
C2_FairPriceSum ==
  (Returned /\ total_composite_score_sum > 0) =>
    2 * Abs(FairPriceSum - 1000) <= Len(processed_shows)

(* C2 witness: a non-degenerate cohort whose rounded fair prices do not    *)
(* add up to exactly 100.                                                  *)
C2_Witness ==
  /\ Returned
  /\ total_composite_score_sum > 0
  /\ Len(processed_shows) = 2
  /\ FairPriceSum # 1000

(* C3: the recommendation is BUY ("BUY YES") exactly when                  *)
(* fair_price > yes_ask + 5, otherwise SELL ("SELL YES") exactly when      *)
(* fair_price < yes_bid - 5, otherwise HOLD; both comparisons are strict   *)
(* and a missing yes_ask counts as 100, a missing yes_bid as 0.            *)
C3_Thresholds ==
  Returned =>
    \A i \in DOMAIN processed_shows :
      LET r == processed_shows[i]
          buy == r.fair_price > 10 * (AskOf(r) + 5)
          sell == r.fair_price < 10 * (BidOf(r) - 5)
      IN  /\ (r.recommendation = "BUY YES") <=> buy
          /\ (r.recommendation = "SELL YES") <=> (~buy /\ sell)
          /\ (r.recommendation = "HOLD") <=> (~buy /\ ~sell)
          /\ r.fair_price = 10 * (AskOf(r) + 5) => r.recommendation # "BUY YES"
          /\ r.fair_price = 10 * (BidOf(r) - 5) => r.recommendation # "SELL YES"

(* C3 witness: one result exactly 5 above its ask and one exactly 5 below  *)
(* its bid, both HOLD.                                                     *)
C3_Witness ==
  /\ Returned
  /\ \E i \in DOMAIN processed_shows :
       /\ processed_shows[i].fair_price = 10 * (AskOf(processed_shows[i]) + 5)
       /\ processed_shows[i].recommendation = "HOLD"
  /\ \E i \in DOMAIN processed_shows :
       /\ processed_shows[i].fair_price = 10 * (BidOf(processed_shows[i]) - 5)
       /\ processed_shows[i].recommendation = "HOLD"

Present(v) == v # ABSENT /\ v # NULL

(* The market record of the i-th input bundle as the engine reads it. *)
MarketOf(i) == input[i].kalshi

(* C4: the market component is last_price when that is present and         *)
(* non-zero, otherwise yes_bid when that is present, otherwise 0.          *)
C4_MarketComponent ==
  \A i \in DOMAIN temp_scored_shows :
    LET k == MarketOf(i)
        c == temp_scored_shows[i].kalshi_score
    IN  IF k.slot = "dict" /\ Present(k.last_price) /\ k.last_price # 0
        THEN c = k.last_price
        ELSE IF k.slot = "dict" /\ Present(k.yes_bid)
        THEN c = k.yes_bid
        ELSE c = 0

(* C4 witness: a bundle with last_price = 0 and yes_bid = 40 scored with   *)
(* market component 40.                                                    *)
C4_Witness ==
  /\ Returned
  /\ \E i \in DOMAIN temp_scored_shows :
       /\ MarketOf(i).last_price = 0
       /\ MarketOf(i).yes_bid = 40
       /\ temp_scored_shows[i].kalshi_score = 40
       /\ temp_scored_shows[i].raw_score = 40 * 50 * ShareDen(grand_total_wiki_views)

(* The scored item a result was made from. *)
ItemOf(r) == temp_scored_shows[InputPos(r)]

(* The exact weighted sum of an item in hundredths, times the share        *)
(* denominator: 50 m + 20 e + 15 n + 10 t + 5 * (100 * views / total).     *)
ExactComposite(t) ==
  (50 * t.kalshi_score + 20 * t.yt_score + 15 * t.news_score + 10 * t.tmdb_score)
     * ShareDen(grand_total_wiki_views)
  + (IF grand_total_wiki_views > 0 THEN 5 * 100 * t.wiki_views ELSE 0)

(* C5: composite_score is the weighted sum 0.50 market + 0.20 engagement + *)
(* 0.15 news + 0.10 metadata + 0.05 view share rounded to one decimal (it  *)
(* is a tenth within 0.05 of the exact sum), and the weights add up to 1.  *)
C5_Composite ==
  /\ W_KALSHI + W_YOUTUBE + W_NEWS + W_TMDB + W_WIKI = 100
  /\ Returned =>
       \A i \in DOMAIN processed_shows :
         LET r == processed_shows[i]
             den == ShareDen(grand_total_wiki_views)
         IN  /\ ItemOf(r).raw_score = ExactComposite(ItemOf(r))
             /\ Abs(10 * den * r.final_composite_score - ExactComposite(ItemOf(r))) <= 5 * den

(* C5 witness: a result whose five components are all non-zero and whose   *)
(* exact sum is not a whole tenth.                                         *)
C5_Witness ==
  /\ Returned
  /\ \E i \in DOMAIN processed_shows :
       LET t == ItemOf(processed_shows[i])
       IN  /\ t.kalshi_score > 0 /\ t.yt_score > 0 /\ t.news_score > 0
           /\ t.tmdb_score > 0 /\ t.wiki_views > 0
           /\ 10 * ShareDen(grand_total_wiki_views) * processed_shows[i].final_composite_score
                # ExactComposite(t)

(* C6 as stated: the recommendation of every result is one of the three    *)
(* values BUY, SELL, HOLD.                                                 *)
C6_Original ==
  \A i \in DOMAIN processed_shows :
    processed_shows[i].recommendation \in {"BUY", "SELL", "HOLD"}

(* C6 amended: the recommendation of every result is one of the three      *)
(* values "BUY YES", "SELL YES", "HOLD".                                   *)
C6_Recommendations ==
  \A i \in DOMAIN processed_shows :
    processed_shows[i].recommendation \in {"BUY YES", "SELL YES", "HOLD"}

(* C6 witness: one returned list holding a buy and a sell recommendation.  *)
C6_Witness ==
  /\ Returned
  /\ \E i \in DOMAIN processed_shows : processed_shows[i].recommendation = "BUY YES"
  /\ \E i \in DOMAIN processed_shows : processed_shows[i].recommendation = "SELL YES"

ZeroOrAbsent(v) == v = 0 \/ v = ABSENT

(* Every metric of the bundle is zero or absent and no slot or quote is    *)
(* null.                                                                   *)
DegenerateBundle(b) ==
  /\ b.kalshi.slot # "null"
  /\ ZeroOrAbsent(b.kalshi.last_price) /\ ZeroOrAbsent(b.kalshi.yes_bid)
  /\ b.kalshi.yes_ask # NULL
  /\ b.youtube.slot # "null" /\ b.youtube.totals # "null"
  /\ (b.youtube.totals = "dict" => ZeroOrAbsent(b.youtube.youtube_score))
  /\ b.news.slot # "null" /\ ZeroOrAbsent(b.news.news_score)
  /\ b.tmdb.slot # "null" /\ ZeroOrAbsent(b.tmdb.tmdb_score)
  /\ b.wikipedia.slot # "null" /\ ZeroOrAbsent(b.wikipedia.total_weekly_views)

SecondPassDone == pc # "ready" /\ Len(temp_scored_shows) = Len(input)

(* C7: when the total composite score is 0 the call meets no division      *)
(* fault and every result has fair_price 0 and recommendation HOLD; a      *)
(* cohort whose metrics are all zero or absent, the empty one included,    *)
(* is such a cohort and the call returns one result per bundle.            *)
C7_DegenerateCohort ==
  /\ (SecondPassDone /\ total_composite_score_sum = 0) =>
       /\ error # "ZeroDivisionError"
       /\ \A i \in DOMAIN processed_shows :
            /\ processed_shows[i].fair_price = 0
            /\ processed_shows[i].recommendation = "HOLD"
  /\ (pc # "ready" /\ \A i \in DOMAIN input : DegenerateBundle(input[i])) =>
       /\ Returned
       /\ total_composite_score_sum = 0
       /\ Len(processed_shows) = Len(input)

(* C7 witness: a returned cohort of two all-zero bundles, one of them with *)
(* quotes present.                                                         *)
C7_Witness ==
  /\ Returned
  /\ Len(processed_shows) = 2
  /\ total_composite_score_sum = 0
  /\ \E i \in DOMAIN input : input[i].kalshi.yes_ask = 0 /\ input[i].kalshi.yes_bid = 0
  /\ \A i \in DOMAIN processed_shows :
       processed_shows[i].fair_price = 0 /\ processed_shows[i].recommendation = "HOLD"

(* No slot and no field of the bundle holds null. *)
NoNull(b) ==
  /\ b.kalshi.slot # "null"
  /\ b.kalshi.last_price # NULL /\ b.kalshi.yes_bid # NULL /\ b.kalshi.yes_ask # NULL
  /\ b.youtube.slot # "null" /\ b.youtube.totals # "null" /\ b.youtube.youtube_score # NULL
  /\ b.news.slot # "null" /\ b.news.news_score # NULL
  /\ b.tmdb.slot # "null" /\ b.tmdb.tmdb_score # NULL
  /\ b.wikipedia.slot # "null" /\ b.wikipedia.total_weekly_views # NULL

(* C8: a missing slot, or a missing field inside a slot, does not make the *)
(* call fail (a list without nulls is always scored) and the component of  *)
(* that slot is 0.                                                         *)
C8_AbsentSlots ==
  /\ (pc # "ready" /\ \A i \in DOMAIN input : NoNull(input[i])) =>
       Returned /\ Len(processed_shows) = Len(input)
  /\ \A i \in DOMAIN temp_scored_shows :
       LET b == input[i]
           t == temp_scored_shows[i]
       IN  /\ (b.kalshi.slot = "absent"
                 \/ (b.kalshi.last_price = ABSENT /\ b.kalshi.yes_bid = ABSENT))
                => t.kalshi_score = 0
           /\ (b.youtube.slot = "absent" \/ b.youtube.totals = "absent"
                 \/ b.youtube.youtube_score = ABSENT)
                => t.yt_score = 0
           /\ (b.news.slot = "absent" \/ b.news.news_score = ABSENT) => t.news_score = 0
           /\ (b.tmdb.slot = "absent" \/ b.tmdb.tmdb_score = ABSENT) => t.tmdb_score = 0
           /\ (b.wikipedia.slot = "absent" \/ b.wikipedia.total_weekly_views = ABSENT)
                => t.wiki_views = 0

(* C8 witness: a bundle with none of the five slots is scored 0 next to a  *)
(* bundle with a positive score.                                           *)
C8_Witness ==
  /\ Returned
  /\ total_composite_score_sum > 0
  /\ \E i \in DOMAIN input :
       /\ input[i].kalshi.slot = "absent" /\ input[i].youtube.slot = "absent"
       /\ input[i].news.slot = "absent" /\ input[i].tmdb.slot = "absent"
       /\ input[i].wikipedia.slot = "absent"
       /\ temp_scored_shows[i].raw_score = 0

(* C9 as stated: the call never raises, and every call returns one result  *)
(* per entity, whatever nulls the bundles hold.                            *)
C9_NeverRaises ==
  pc # "ready" => (Returned /\ Len(processed_shows) = Len(input))

(* C10: the edge is never negative; it is 0 for HOLD, fair_price - yes_ask *)
(* for BUY and yes_bid - fair_price for SELL.                              *)
C10_Edge ==
  Returned =>
    \A i \in DOMAIN processed_shows :
      LET r == processed_shows[i]
      IN  /\ r.edge_points >= 0
          /\ r.recommendation = "HOLD" => r.edge_points = 0
          /\ r.recommendation = "BUY YES" => r.edge_points = r.fair_price - 10 * AskOf(r)
          /\ r.recommendation = "SELL YES" => r.edge_points = 10 * BidOf(r) - r.fair_price

(* C10 witness: fair price 80 against ask 70 gives BUY with edge 10, fair  *)
(* price 20 against bid 30 gives SELL with edge 10.                        *)
C10_Witness ==
  /\ Returned
  /\ \E i \in DOMAIN processed_shows :
       /\ processed_shows[i].fair_price = 800 /\ AskOf(processed_shows[i]) = 70
       /\ processed_shows[i].recommendation = "BUY YES"
       /\ processed_shows[i].edge_points = 100
  /\ \E i \in DOMAIN processed_shows :
       /\ processed_shows[i].fair_price = 200 /\ BidOf(processed_shows[i]) = 30
       /\ processed_shows[i].recommendation = "SELL YES"
       /\ processed_shows[i].edge_points = 100

(* C11 as stated: a call leaves every bundle of its input list, nested     *)
(* records included, as it was handed over.                                *)
C11_InputUnchanged == shows_data = input

(* The view share a result displays, in tenths: the score written into its *)
(* wikipedia record; a bundle without such a record has no views.          *)
DisplayedShare(r) == IF r.wikipedia.slot = "dict" THEN r.wikipedia.score ELSE 0

DisplayedShareSum == SumSeq([i \in DOMAIN processed_shows |-> DisplayedShare(processed_shows[i])])

ViewSum == SumSeq([i \in DOMAIN temp_scored_shows |-> temp_scored_shows[i].wiki_views])

(* C12: when the total of the page views is greater than 0 the view shares *)
(* add up to 100 (the views add up to the total, and the displayed         *)
(* one-decimal shares add up to 100 within 0.05 per entity); when it is 0  *)
(* every share is 0 and no division fault occurs.                          *)
C12_ViewShare ==
  Returned =>
    /\ ViewSum = grand_total_wiki_views
    /\ grand_total_wiki_views > 0 =>
         2 * Abs(DisplayedShareSum - 1000) <= Len(processed_shows)
    /\ grand_total_wiki_views = 0 =>
         /\ error # "ZeroDivisionError"
         /\ \A i \in DOMAIN processed_shows : DisplayedShare(processed_shows[i]) = 0
         /\ \A i \in DOMAIN temp_scored_shows :
              temp_scored_shows[i].raw_score
                = 50 * temp_scored_shows[i].kalshi_score + 20 * temp_scored_shows[i].yt_score
                  + 15 * temp_scored_shows[i].news_score + 10 * temp_scored_shows[i].tmdb_score

(* C12 witness: two entities with page views whose displayed shares are    *)
(* both rounded and do not add up to exactly 100.                          *)
C12_Witness ==
  /\ Returned
  /\ grand_total_wiki_views > 0
  /\ Len(processed_shows) = 2
  /\ \A i \in DOMAIN processed_shows : DisplayedShare(processed_shows[i]) > 0
  /\ DisplayedShareSum # 1000

(* ------------------------- Interleaved engine calls -------------------- *)

(* Engine calls that run side by side. *)
MaxCalls == 2

Calls == 1..MaxCalls

(* The list a call works on: its own bundles, with the wikipedia slot of   *)
(* the aliased positions read through to the module's object.              *)
Deref(list, alias, default) ==
  [i \in DOMAIN list |-> IF i \in alias THEN [list[i] EXCEPT !.wikipedia = default] ELSE list[i]]

(* One entry of temp_scored_shows. *)
ScoredItem(show, written, gt) ==
  [data |-> written,
   kalshi_score |-> KalshiScore(show),
   yt_score |-> YtScore(show),
   news_score |-> NewsScore(show),
   tmdb_score |-> TmdbScore(show),
   wiki_views |-> WikiViews(show),
   raw_score |-> RawScore(show, gt)]

(* A call of apply_scoring_logic about to start on the list arg. *)
NewCall(arg, alias) ==
  [pc |-> "pass1", arg |-> arg, list |-> arg, alias |-> alias, gt |-> 0, temp |-> <<>>,
   upW |-> {}, upC |-> {}, upF |-> {}, error |-> "none", processed_shows |-> <<>>]

(* Every call is a full refresh of the same upstream world that has built  *)
(* its own shows_payload and is about to hand it to the engine.            *)
InitConc ==
  /\ event_markets \in MarketLists
  /\ upstream \in UpstreamCases
  /\ DEFAULT_WIKI_DATA = Wiki(0)
  /\ all_markets = event_markets
  /\ top_markets = TopMarkets(event_markets)
  /\ calls = [c \in Calls |->
                NewCall(ShowsPayload(top_markets, upstream, DEFAULT_WIKI_DATA),
                        Aliases(top_markets, upstream))]
  /\ accesses = [readers |-> {}, writers |-> {}]
  /\ snapshots = <<>>
  /\ sec = 0
  /\ stamp = 0
  /\ ops = 0
  /\ last_op = "refresh"
  /\ response = Returns(EmptyDict)
  /\ last_save = "none"
  /\ engine_calls = 0
  /\ shadow = {}
  /\ route = "none"
  /\ requests = 0
  /\ kalshi_fetch = "none"
  /\ shows_data = <<>>
  /\ input = <<>>
  /\ pc = "ready"
  /\ error = "none"
  /\ grand_total_wiki_views = 0
  /\ temp_scored_shows = <<>>
  /\ total_composite_score_sum = 0
  /\ processed_shows = <<>>
  /\ again = NotCalled

(* The accesses after call c read (and, with w, wrote) the shared object. *)
Touch(c, touched, w) ==
  [readers |-> IF touched THEN accesses.readers \cup {c} ELSE accesses.readers,
   writers |-> IF touched /\ w THEN accesses.writers \cup {c} ELSE accesses.writers]

(* Pass 1 of call c: the sum over the views of all its bundles. *)
Pass1(c) ==
  LET k == calls[c]
      shows == Deref(k.list, k.alias, DEFAULT_WIKI_DATA)
  IN  /\ k.pc = "pass1"
      /\ calls' = [calls EXCEPT ![c].gt = GrandTotalWikiViews(shows),
                                ![c].pc = IF k.list = <<>> THEN "pass3" ELSE "pass2"]
      /\ accesses' = Touch(c, k.alias # {}, FALSE)
      /\ UNCHANGED <<engine_vars, orch_vars>>

(* One round of the loop of pass 2 of call c: the scores of the next show  *)
(* and the write of "score" into its wikipedia dict, which is the shared   *)
(* object at an aliased position.                                          *)
Pass2(c) ==
  LET k == calls[c]
      i == Len(k.temp) + 1
      show == Deref(k.list, k.alias, DEFAULT_WIKI_DATA)[i]
  IN  /\ k.pc = "pass2"
      /\ \E up \in IF k.gt > 0 /\ IsTieScaled(WikiViews(show), k.gt) THEN BOOLEAN ELSE {FALSE} :
           LET written == WriteWikiScore(show, k.gt, up)
           IN  /\ calls' = [calls EXCEPT
                              ![c].list = [k.list EXCEPT ![i] = written],
                              ![c].temp = Append(k.temp, ScoredItem(show, written, k.gt)),
                              ![c].upW = IF up THEN k.upW \cup {i} ELSE k.upW,
                              ![c].pc = IF i = Len(k.list) THEN "pass3" ELSE "pass2"]
               /\ DEFAULT_WIKI_DATA' = IF i \in k.alias THEN written.wikipedia ELSE DEFAULT_WIKI_DATA
      /\ accesses' = Touch(c, i \in k.alias, TRUE)
      /\ UNCHANGED engine_vars
      /\ UNCHANGED <<event_markets, upstream, snapshots, sec, stamp, ops, last_op, response,
                     last_save, engine_calls, all_markets, top_markets, shadow,
                     route, requests, kalshi_fetch>>

(* Pass 3 of call c: prices, signals and the sorted results; a result      *)
(* holds the wikipedia dict of its bundle, the shared object included.     *)
Pass3(c) ==
  LET k == calls[c]
      m == Len(k.temp)
      temp == [i \in 1..m |->
                 IF i \in k.alias THEN [k.temp[i] EXCEPT !.data.wikipedia = DEFAULT_WIKI_DATA]
                 ELSE k.temp[i]]
      total == SumSeq([i \in 1..m |-> temp[i].raw_score])
      tiesC == {i \in 1..m : IsTie(temp[i].raw_score, 10 * ShareDen(k.gt))}
      tiesF == {i \in 1..m : total > 0 /\ IsTieScaled(temp[i].raw_score, total)}
  IN  /\ k.pc = "pass3"
      /\ \E upC \in SUBSET tiesC, upF \in SUBSET tiesF :
           LET fair == [i \in 1..m |-> FairPrice(temp[i].raw_score, total, i \in upF)]
               sig == [i \in 1..m |-> Signal(SignalPrice(fair[i].v, temp[i].raw_score, total),
                 ShowGet(temp[i].data.kalshi, EmptyKalshi))]
               e3 == FirstError([i \in 1..m |-> IF fair[i].fault THEN "ZeroDivisionError"
                                                 ELSE sig[i].error])
               processed == [i \in 1..m |->
                               ProcessedShow(temp[i],
                                             RoundDiv(temp[i].raw_score, 10 * ShareDen(k.gt), i \in upC),
                                             fair[i].v, sig[i])]
           IN  calls' = [calls EXCEPT
                           ![c].upC = upC,
                           ![c].upF = upF,
                           ![c].pc = IF e3 = 0 THEN "returned" ELSE "raised",
                           ![c].error = IF e3 = 0 THEN "none"
                                        ELSE IF fair[e3].fault THEN "ZeroDivisionError"
                                        ELSE sig[e3].error,
                           ![c].processed_shows = IF e3 = 0 THEN SortByFairPrice(processed) ELSE <<>>]
      /\ accesses' = Touch(c, k.alias # {}, FALSE)
      /\ UNCHANGED <<engine_vars, orch_vars>>

NextConc == \E c \in Calls : Pass1(c) \/ Pass2(c) \/ Pass3(c)

SpecConc == InitConc /\ [][NextConc]_vars

(* ------------------------- Properties of the orchestrator -------------- *)

(* The step just taken is a call of the operation op. *)
StepOf(op) == ops' = ops + 1 /\ last_op' = op

(* C13: a recalculate that finds no snapshot in the store returns the      *)
(* structured "no existing analysis" message instead of raising, does not  *)
(* call the scoring engine and leaves the store as it was.                 *)
C13_NoSnapshot ==
  [][ (StepOf("recalculate") /\ snapshots = <<>>) =>
        /\ response' = Returns(NoAnalysisPayload)
        /\ engine_calls' = engine_calls
        /\ UNCHANGED engine_vars
        /\ snapshots' = snapshots ]_vars

(* A recalculate answered with the error message over an empty store. *)
C13_Witness ==
  /\ last_op = "recalculate"
  /\ snapshots = <<>>
  /\ response.raised = "none"
  /\ "error" \in response.body.keys

(* An operation has returned a body, and the body is an error result. *)
ReturnedError ==
  last_op \in {"refresh", "recalculate"} /\ response.raised = "none" /\ "error" \in response.body.keys

(* An operation has returned a body that is not an error result. *)
ReturnedPayload ==
  last_op \in {"refresh", "recalculate"} /\ response.raised = "none" /\ "error" \notin response.body.keys

(* A non-error result is the output of the engine call of that operation   *)
(* and the timestamp taken for it.                                         *)
PassThrough ==
  ReturnedPayload =>
    /\ pc = "returned"
    /\ response.body.keys = {"timestamp", "shows"}
    /\ response.body.shows = processed_shows
    /\ response.body.timestamp = stamp
    /\ stamp > 0

(* C14 as stated: the missing snapshot of recalculate is the only checked  *)
(* condition, full_refresh never returns an error result, and non-error    *)
(* results pass the engine's output through with a timestamp.              *)
C14_Original ==
  /\ ReturnedError => last_op = "recalculate"
  /\ PassThrough

(* C14: error results come from exactly two checked conditions, the        *)
(* missing snapshot of recalculate (message only) and the failed base      *)
(* market fetch of full_refresh (message and an empty shows list); every   *)
(* non-error result of either operation carries the engine's output        *)
(* unchanged plus a timestamp.                                             *)
C14_CheckedConditions ==
  /\ ReturnedError =>
        \/ /\ last_op = "recalculate"
           /\ response.body.keys = {"error"}
           /\ response.body.error = "No existing analysis found. Please run a full refresh first."
           /\ NoAnalysis(get_latest_snapshot(snapshots))
        \/ /\ last_op = "refresh"
           /\ response.body.keys = {"error", "shows"}
           /\ response.body.error = "Failed to fetch base market data"
           /\ response.body.shows = <<>>
  /\ PassThrough

(* A full refresh answered with the fetch error while the store holds an   *)
(* earlier payload.                                                        *)
C14_Witness ==
  /\ ReturnedError
  /\ last_op = "refresh"
  /\ snapshots # <<>>

(* The last operation was a full refresh that got past the market fetch. *)
RefreshRan == last_op = "refresh" /\ ~ReturnedError

Min(a, b) == IF a < b THEN a ELSE b

Usable(v) == v # ABSENT /\ v # NULL /\ v # 0

(* market_component's rule on a market: last_price, else yes_bid, else 0. *)
ComponentRank(m) ==
  IF Usable(m.last_price) THEN m.last_price ELSE IF Usable(m.yes_bid) THEN m.yes_bid ELSE 0

(* The ranking rule with the two quotes in the other order. *)
BidRank(m) ==
  IF Usable(m.yes_bid) THEN m.yes_bid ELSE IF Usable(m.last_price) THEN m.last_price ELSE 0

Included == {top_markets[i] : i \in DOMAIN top_markets}

Excluded == {all_markets[i] : i \in DOMAIN all_markets} \ Included

(* The cohort is five markets of the fetched list (all when there are      *)
(* fewer), each once, and the engine ran on bundles of cohort markets.     *)
CohortShape ==
  /\ Len(top_markets) = Min(5, Len(all_markets))
  /\ Included \subseteq {all_markets[i] : i \in DOMAIN all_markets}
  /\ Cardinality(Included) = Len(top_markets)
  /\ \A j \in DOMAIN input : input[j].kalshi \in Included

(* C15 as stated: the cohort is the five highest markets under             *)
(* market_component's rule, so no excluded market has a strictly higher    *)
(* market component than an included one.                                  *)
C15_Original ==
  RefreshRan =>
    /\ CohortShape
    /\ \A e \in Excluded : \A m \in Included : ComponentRank(e) <= ComponentRank(m)

(* C15: the cohort is chosen before the engine runs by ranking all markets *)
(* by yes_bid if present and non-zero, else last_price, else 0, and        *)
(* keeping the 5 highest: the cohort is in descending order of that key    *)
(* and no excluded market has a strictly higher key than an included one.  *)
C15_Cohort ==
  RefreshRan =>
    /\ CohortShape
    /\ \A i, j \in DOMAIN top_markets : i < j => BidRank(top_markets[i]) >= BidRank(top_markets[j])
    /\ \A e \in Excluded : \A m \in Included : BidRank(e) <= BidRank(m)

(* A refresh over six markets that left out the market with the highest    *)
(* market component.                                                       *)
C15_Witness ==
  /\ RefreshRan
  /\ Len(all_markets) = 6
  /\ Len(top_markets) = 5
  /\ \E e \in Excluded : \A m \in Included : ComponentRank(e) > ComponentRank(m)

(* Source s failed for the market at position i of the event. *)
Failed(i, s) == i \in upstream.who /\ s \in upstream.sources

(* The bundle carries, for the market at position i, the zero default of   *)
(* every source that failed and the fetched metric of every other source.  *)
BundleAsFetched(b, i) ==
  /\ b.youtube = [slot |-> "dict", totals |-> "dict",
                  youtube_score |-> IF Failed(i, "youtube") THEN 0 ELSE 50]
  /\ b.news = [slot |-> "dict", news_score |-> IF Failed(i, "news") THEN 0 ELSE 40]
  /\ b.tmdb = [slot |-> "dict", tmdb_score |-> IF Failed(i, "tmdb") THEN 0 ELSE 30]
  /\ b.wikipedia.slot = "dict"
  /\ b.wikipedia.total_weekly_views = IF Failed(i, "wikipedia") THEN 0 ELSE PageViews(i)

(* The result made from bundle b. *)
ResultOf(b) == CHOOSE r \in {processed_shows[i] : i \in DOMAIN processed_shows} : r.kalshi = b.kalshi

HasNullQuote(b) == NULL \in {b.kalshi.last_price, b.kalshi.yes_bid, b.kalshi.yes_ask}

(* C16: in a full refresh a source that fails for an entity (by raising or *)
(* by a payload without its key) puts the zero default in that entity's    *)
(* slot for that source only; every other slot of every bundle holds the   *)
(* fetched metric, source failures never make the refresh raise, and every *)
(* bundle is scored from the metrics it carries.                           *)
C16_SourceFailure ==
  RefreshRan =>
    /\ Len(input) = Len(Named(top_markets))
    /\ \A j \in DOMAIN input : BundleAsFetched(input[j], MarketPos(input[j].kalshi))
    /\ response.raised # "none" => \E j \in DOMAIN input : HasNullQuote(input[j])
    /\ ReturnedPayload =>
         /\ Len(processed_shows) = Len(input)
         /\ \A j \in DOMAIN input :
              LET r == ResultOf(input[j])
              IN  /\ r.youtube = input[j].youtube
                  /\ r.news = input[j].news
                  /\ r.tmdb = input[j].tmdb
                  /\ r.wikipedia.total_weekly_views = input[j].wikipedia.total_weekly_views

(* A refresh of several entities returned although exactly one source      *)
(* failed for exactly the first market: its bundle has that one default,   *)
(* another bundle has none.                                                *)
C16_Witness ==
  /\ RefreshRan
  /\ ReturnedPayload
  /\ upstream.who = {1}
  /\ upstream.sources = {"youtube"}
  /\ upstream.how = "malformed"
  /\ Len(processed_shows) = 5
  /\ \E j, k \in DOMAIN input :
       /\ MarketPos(input[j].kalshi) = 1
       /\ input[j].youtube.youtube_score = 0
       /\ input[j].news.news_score = 40
       /\ input[k].youtube.youtube_score = 50

(* C17 as stated: every market of the cohort yields exactly one bundle     *)
(* and, in the returned payload, exactly one scored result.                *)
C17_NoOmission ==
  RefreshRan =>
    \A m \in Included :
      /\ Cardinality({j \in DOMAIN input : input[j].kalshi = m}) = 1
      /\ ReturnedPayload =>
           Cardinality({j \in DOMAIN response.body.shows : response.body.shows[j].kalshi = m}) = 1

(* get_latest_snapshot issued now returns the payload just returned. *)
LatestIsResponse ==
  LET latest == get_latest_snapshot(snapshots)
  IN  /\ latest.keys = {"timestamp", "shows"}
      /\ latest.timestamp = response.body.timestamp
      /\ latest.shows = response.body.shows

RecalculateRan == last_op = "recalculate" /\ ~ReturnedError

(* C19: a recalculate gives the same outcome (the same results, or the     *)
(* same exception) on the loaded snapshot and on every snapshot that       *)
(* differs from it only in final_composite_score, fair_price,              *)
(* recommendation, edge_points and the wikipedia score.                    *)
C19_RawDataOnly ==
  RecalculateRan =>
    shadow = {[pc |-> pc, error |-> error, processed_shows |-> processed_shows]}

(* A recalculate returned results for several shows whose loaded records   *)
(* carried non-zero computed fields.                                       *)
C19_Witness ==
  /\ RecalculateRan
  /\ ReturnedPayload
  /\ Len(processed_shows) >= 2
  /\ \A j \in DOMAIN input :
       /\ input[j].fair_price > 0
       /\ input[j].final_composite_score > 0
       /\ input[j].wikipedia.score > 0
  /\ \E j \in DOMAIN input : input[j].edge_points # 0 /\ input[j].recommendation # "HOLD"

(* ------------------------- Properties of interleaved calls ------------- *)

(* The outcome of call k run alone on the list produced for it, from a     *)
(* freshly loaded module, with the same rounding of exact halves.          *)
Alone(k) == apply_scoring_logic(Deref(k.arg, k.alias, Wiki(0)), k.upW, k.upC, k.upF)

(* Every finished call has the outcome it has when run alone. *)
SameAsAlone ==
  \A c \in DOMAIN calls :
    calls[c].pc \in {"returned", "raised"} =>
      /\ calls[c].error = Alone(calls[c]).error
      /\ calls[c].processed_shows = Alone(calls[c]).processed_shows

(* No call has written a record that another call has read. *)
NoSharedRecord == \A c \in accesses.writers : \A d \in accesses.readers : c = d

(* C20 as stated: interleaved calls of the engine, each on the bundle list *)
(* produced for it, return what they return alone, and no call writes a    *)
(* record that another call reads.                                         *)
C20_NoSharedState == SameAsAlone /\ NoSharedRecord

(* ------------------------- Further properties of the engine ------------ *)

(* The raw data of a bundle or of a result, without its name. *)
DataOf(b) ==
  [last_price |-> b.kalshi.last_price,
   youtube_score |-> b.youtube.youtube_score,
   news_score |-> b.news.news_score,
   tmdb_score |-> b.tmdb.tmdb_score,
   views |-> b.wikipedia.total_weekly_views]

EntityA == [last_price |-> 60, youtube_score |-> 50, news_score |-> 40, tmdb_score |-> 30, views |-> 700]

EntityB == [last_price |-> 20, youtube_score |-> 10, news_score |-> 10, tmdb_score |-> 10, views |-> 300]

(* The input is the cohort of the two entities, in either order. *)
WorkedCohort ==
  /\ Len(input) = 2
  /\ \A i \in 1..2 : \A f \in {"kalshi", "youtube", "news", "tmdb", "wikipedia"} : input[i][f].slot = "dict"
  /\ {DataOf(input[1]), DataOf(input[2])} = {EntityA, EntityB}

(* C21: on the cohort of A (60, 50, 40, 30, 700 views) and B (20, 10, 10,  *)
(* 10, 300 views) the engine returns A before B with view shares 70.0 and  *)
(* 30.0, composite scores 52.5 and 16.0 and fair prices 76.6 and 23.4      *)
(* (all in tenths here).                                                   *)
C21_WorkedExample ==
  (pc # "ready" /\ WorkedCohort) =>
    /\ Returned
    /\ Len(processed_shows) = 2
    /\ DataOf(processed_shows[1]) = EntityA
    /\ DataOf(processed_shows[2]) = EntityB
    /\ processed_shows[1].wikipedia.score = 700
    /\ processed_shows[2].wikipedia.score = 300
    /\ processed_shows[1].final_composite_score = 525
    /\ processed_shows[2].final_composite_score = 160
    /\ processed_shows[1].fair_price = 766
    /\ processed_shows[2].fair_price = 234

(* The engine has returned on the cohort handed over as B, then A. *)
C21_Witness ==
  /\ Returned
  /\ WorkedCohort
  /\ DataOf(input[1]) = EntityB

(* ------------------------- Further properties of the orchestrator ------ *)

(* C22 as stated: while the API key of a source is missing, a full refresh *)
(* fails at that source before the engine, so the engine is never handed   *)
(* a bundle and no scored result is returned.                              *)
C22_FailFast ==
  (upstream.how = "no_key" /\ RefreshRan) =>
    /\ input = <<>>
    /\ response.body.shows = <<>>

(* A file other than the newest holds a snapshot: it was in the store      *)
(* before the last operation, which writes the newest file at most.        *)
OlderSnapshot == \E i \in 1..(Len(snapshots) - 1) : snapshots[i].intact

(* C23 as stated: GET /latest answers from the store, without a refresh,   *)
(* whenever the store holds a snapshot.                                    *)
C23_Original == (route = "/latest" /\ OlderSnapshot) => last_op = "read"

(* C23: GET /latest returns the content of the most recently modified      *)
(* snapshot file, without any request upstream, engine call or write,      *)
(* whenever that file can be loaded; it runs a full refresh and returns    *)
(* its result when the store is empty or its newest file cannot be loaded, *)
(* older snapshots or not.                                                 *)
C23_Latest ==
  [][ StepOf("read") \/ (ops' = ops + 1 /\ route' = "/latest") =>
        /\ route' = "/latest"
        /\ IF snapshots # <<>> /\ snapshots[Len(snapshots)].intact
           THEN /\ last_op' = "read"
                /\ response' = Returns(snapshots[Len(snapshots)].data)
                /\ requests' = requests
                /\ engine_calls' = engine_calls
                /\ snapshots' = snapshots
           ELSE /\ last_op' = "refresh"
                /\ requests' > requests
                /\ kalshi_fetch' = "http_error" => response' = Returns(FetchErrorPayload)
                /\ kalshi_fetch' # "http_error" => engine_calls' = engine_calls + 1 ]_vars

(* GET /latest has returned a snapshot that this run wrote, and an older   *)
(* one is in the store as well.                                            *)
C23_Witness ==
  /\ route = "/latest"
  /\ last_op = "read"
  /\ response.body.timestamp > 0
  /\ response.body.shows # <<>>
  /\ OlderSnapshot

FileNames(files) == {files[i].name : i \in DOMAIN files}

(* C24 as stated: once the store holds a successfully written snapshot, a  *)
(* recalculate never answers with the no-data error.                       *)
C24_Original ==
  (\E i \in DOMAIN snapshots : snapshots[i].intact) => ~(last_op = "recalculate" /\ ReturnedError)

(* C24: no operation deletes a snapshot file or empties the store (a file  *)
(* is only rewritten by a save in the second it is named after), and a     *)
(* recalculate returns a scored payload, one result per stored show,       *)
(* whenever the most recently modified file is an intact snapshot; after a *)
(* write that broke off it returns the no-data error although older        *)
(* snapshots are still in the store.                                       *)
C24_StoreKept ==
  [][ /\ FileNames(snapshots) \subseteq FileNames(snapshots')
      /\ \A i \in DOMAIN snapshots :
           snapshots[i].name # sec' => \E j \in DOMAIN snapshots' : snapshots'[j] = snapshots[i]
      /\ (StepOf("recalculate") /\ snapshots # <<>> /\ snapshots[Len(snapshots)].intact) =>
           /\ response'.raised = "none"
           /\ response'.body.keys = {"timestamp", "shows"}
           /\ Len(response'.body.shows) = Len(snapshots[Len(snapshots)].data.shows)
      /\ (StepOf("recalculate") /\ snapshots # <<>> /\ ~snapshots[Len(snapshots)].intact) =>
           response' = Returns(NoAnalysisPayload) ]_vars

(* A recalculate has returned results from a snapshot this run wrote, and  *)
(* the store has grown to three files.                                     *)
C24_Witness ==
  /\ last_op = "recalculate"
  /\ ReturnedPayload
  /\ response.body.shows # <<>>
  /\ input[1].show_name # "Z"
  /\ Len(snapshots) = 3

(* C25: a full refresh whose base market fetch failed returns the error    *)
(* payload with an empty shows list, fetches nothing else, does not run    *)
(* the engine and writes nothing to the snapshot store.                    *)
C25_FetchFailure ==
  (last_op = "refresh" /\ kalshi_fetch # "ok") =>
    /\ response = Returns(FetchErrorPayload)
    /\ last_save = "none"

(* The results that carry the name and the market, youtube, news and tmdb *)
(* records of bundle b, a missing record as None.                          *)
ResultsOf(b) ==
  { j \in DOMAIN processed_shows :
      /\ processed_shows[j].show_name = b.show_name
      /\ processed_shows[j].kalshi = ShowGetNone(b.kalshi)
      /\ processed_shows[j].youtube = ShowGetNone(b.youtube)
      /\ processed_shows[j].news = ShowGetNone(b.news)
      /\ processed_shows[j].tmdb = ShowGetNone(b.tmdb) }

(* C27: the list a call returns is a permutation of its input: as many     *)
(* results as bundles, and for every bundle exactly one result, carrying   *)
(* the bundle's name and its kalshi, youtube, news and tmdb records as      *)
(* they were handed in, whatever the scores.                               *)
C27_Permutation ==
  Returned =>
    /\ Len(processed_shows) = Len(input)
    /\ \A i \in DOMAIN input : Cardinality(ResultsOf(input[i])) = 1
    /\ \A i, k \in DOMAIN input : i # k => ResultsOf(input[i]) # ResultsOf(input[k])

(* The second bundle comes first in the results and the first, priced at  *)
(* zero and without a youtube record, is still in the list.                *)
C27_Witness ==
  /\ Returned
  /\ Len(processed_shows) = 2
  /\ processed_shows[1].show_name = "B"
  /\ processed_shows[2].show_name = "A"
  /\ processed_shows[2].fair_price = 0
  /\ processed_shows[1].fair_price = 1000
  /\ input[1].youtube.slot = "absent"

(* The market of result r has neither a yes_ask nor a yes_bid. *)
Unquoted(r) ==
  r.kalshi.slot # "dict" \/ (r.kalshi.yes_ask = ABSENT /\ r.kalshi.yes_bid = ABSENT)

(* C28: every fair_price of a returned list lies in [0, 100], and a result *)
(* whose market has neither yes_ask nor yes_bid is HOLD with edge 0.       *)
C28_PriceRange ==
  Returned =>
    \A i \in DOMAIN processed_shows :
      LET r == processed_shows[i]
      IN  /\ r.fair_price >= 0
          /\ r.fair_price <= 1000
          /\ Unquoted(r) => r.recommendation = "HOLD" /\ r.edge_points = 0

(* A single show takes the whole price, 100, and has no quotes; in a       *)
(* cohort of two an unquoted show is priced strictly between 0 and 100.    *)
C28_Witness ==
  /\ Returned
  /\ \E i \in DOMAIN processed_shows :
       /\ Unquoted(processed_shows[i])
       /\ processed_shows[i].fair_price > 0
       /\ processed_shows[i].fair_price < 1000
       /\ processed_shows[i].recommendation = "HOLD"
  /\ \E i \in DOMAIN processed_shows :
       ~Unquoted(processed_shows[i]) /\ processed_shows[i].recommendation # "HOLD"

(* The quotes of result r are crossed around its fair_price: the price is *)
(* more than the margin above the ask and more than the margin below the   *)
(* bid.                                                                    *)
Crossed(r) ==
  /\ r.kalshi.slot = "dict"
  /\ r.fair_price > 10 * (AskOf(r) + MARGIN)
  /\ r.fair_price < 10 * (BidOf(r) - MARGIN)

(* C29: a result carries one recommendation, and when both the buy and the *)
(* sell comparison hold the buy branch wins: the result is the buy signal  *)
(* with edge = fair_price - yes_ask.                                       *)
C29_BuyFirst ==
  Returned =>
    \A i \in DOMAIN processed_shows :
      LET r == processed_shows[i]
      IN  Crossed(r) =>
            /\ r.recommendation = "BUY YES"
            /\ r.edge_points = r.fair_price - 10 * AskOf(r)

(* A result with bid 90 and ask 10 priced strictly between them. *)
C29_Witness ==
  /\ Returned
  /\ \E i \in DOMAIN processed_shows :
       /\ Crossed(processed_shows[i])
       /\ processed_shows[i].kalshi.yes_bid = 90
       /\ processed_shows[i].kalshi.yes_ask = 10
       /\ processed_shows[i].recommendation = "BUY YES"
       /\ processed_shows[i].edge_points # 900 - processed_shows[i].fair_price

(* The signal recomputed from what result r reports: its fair_price and   *)
(* the quotes of its market.                                               *)
Recomputed(r) ==
  Signal(r.fair_price, IF r.kalshi.slot = "dict" THEN r.kalshi ELSE EmptyKalshi)

(* raw_score / total * 100 of the show named name lies below the tenth it  *)
(* was rounded to.                                                         *)
RoundedUp(name, fair_price) ==
  \E k \in DOMAIN temp_scored_shows :
    /\ temp_scored_shows[k].data.show_name = name
    /\ total_composite_score_sum > 0
    /\ LET s == Scale1000(temp_scored_shows[k].raw_score, total_composite_score_sum)
       IN  s.q = fair_price - 1

(* C30: the recommendation and the edge of every result are the ones the   *)
(* comparisons give on the fair_price the result reports, rounded to one   *)
(* decimal, and its yes_ask and yes_bid.                                   *)
C30_FromReported ==
  Returned =>
    \A i \in DOMAIN processed_shows :
      LET r == processed_shows[i]
      IN  /\ Recomputed(r).recommendation = r.recommendation
          /\ Recomputed(r).edge_points = r.edge_points

(* A result whose reported price is exactly the bid minus the margin while *)
(* the price before rounding lay below it: the result is HOLD.             *)
C30_Witness ==
  /\ Returned
  /\ \E i \in DOMAIN processed_shows :
       LET r == processed_shows[i]
       IN  /\ r.kalshi.slot = "dict"
           /\ r.fair_price = 10 * (BidOf(r) - MARGIN)
           /\ RoundedUp(r.show_name, r.fair_price)
           /\ r.recommendation = "HOLD"

(* ------------------------- Properties of a repeated call --------------- *)

(* What idempotence compares: order, scores, prices and signals. *)
Outcomes(results) ==
  [i \in DOMAIN results |->
     [show_name |-> results[i].show_name,
      final_composite_score |-> results[i].final_composite_score,
      fair_price |-> results[i].fair_price,
      recommendation |-> results[i].recommendation,
      edge_points |-> results[i].edge_points]]

(* C26: the engine called on the list it returned returns, with the same   *)
(* entity order, composite scores, fair prices, recommendations and edges. *)
C26_Idempotent ==
  again # NotCalled =>
    /\ again.pc = "returned"
    /\ Outcomes(again.processed_shows) = Outcomes(processed_shows)

====
